---- MODULE Spec2Model ----
(***************************************************************************)
(* Camera of fantasyup/gogame (src/camera.go): the transform between game  *)
(* space and display space, and the delegation of the draw primitives to   *)
(* the embedded VideoOutput.                                               *)
(*                                                                         *)
(* Numbers.  The code computes in float64.  A number is modelled as an     *)
(* exact fraction <<n, d>> in lowest terms with d > 0, or as NonFinite     *)
(* (what IEEE-754 gives for a division by zero: +Inf, -Inf or NaN, which   *)
(* every later +, -, * and / by a zoom keeps non-finite).  The rounding of  *)
(* float64 is not modelled: every property below is a statement about the *)
(* arithmetic the code writes down, exact up to floating-point rounding.   *)
(*                                                                         *)
(* Observations.  last is the most recent call of a transform (Project,    *)
(* Unproject, ...) with its argument and its result; camCalls and          *)
(* surfCalls are the draw calls made on the camera and the calls the       *)
(* VideoOutput received; points is the caller's slice handed to            *)
(* DrawPolygon.  They describe the calls made under the current geometry:  *)
(* when the caller moves the camera or the surface is resized, a new       *)
(* window of observation starts.  A zero zoom is a value the caller may    *)
(* set; Unproject then returns NonFinite.                                  *)
(***************************************************************************)
EXTENDS Integers, Sequences, FiniteSets

VARIABLES Center, Zoom, surfRect, last, camCalls, surfCalls, points

vars == <<Center, Zoom, surfRect, last, camCalls, surfCalls, points>>

(***************************************************************************)
(* Bounds of the model.                                                    *)
(***************************************************************************)
MaxCoord == 1
MaxPoly == 2
MaxCalls == 2

(***************************************************************************)
(* float64 arithmetic, exact.                                              *)
(***************************************************************************)
NonFinite == <<0, 0>>

Abs(n) == IF n < 0 THEN -n ELSE n

RECURSIVE GCD(_, _)
GCD(a, b) == IF b = 0 THEN a ELSE GCD(b, a % b)

Norm(n, d) ==
    IF d = 0 THEN NonFinite
    ELSE LET s == IF d < 0 THEN -1 ELSE 1
             g == GCD(Abs(n), Abs(d))
         IN  <<(s * n) \div g, (s * d) \div g>>

R(n) == <<n, 1>>

IsFinite(a) == a[2] # 0

FAdd(a, b) ==
    IF IsFinite(a) /\ IsFinite(b)
    THEN Norm(a[1] * b[2] + b[1] * a[2], a[2] * b[2])
    ELSE NonFinite

FSub(a, b) ==
    IF IsFinite(a) /\ IsFinite(b)
    THEN Norm(a[1] * b[2] - b[1] * a[2], a[2] * b[2])
    ELSE NonFinite

FMul(a, b) ==
    IF IsFinite(a) /\ IsFinite(b)
    THEN Norm(a[1] * b[1], a[2] * b[2])
    ELSE NonFinite

FDiv(a, b) ==
    IF IsFinite(a) /\ IsFinite(b) /\ b[1] # 0
    THEN Norm(a[1] * b[2], a[2] * b[1])
    ELSE NonFinite

FLtZero(a) == IsFinite(a) /\ a[1] < 0

(***************************************************************************)
(* Vec and Rect values, and the camera as the methods see it.              *)
(***************************************************************************)
Vec(x, y) == [X |-> x, Y |-> y]

Rect(x, y, w, h) == [X |-> x, Y |-> y, W |-> w, H |-> h]

V(x, y) == Vec(R(x), R(y))

Rc(x, y, w, h) == Rect(R(x), R(y), R(w), R(h))

RectCenter(r) ==
    Vec(FAdd(r.X, FDiv(r.W, R(2))), FAdd(r.Y, FDiv(r.H, R(2))))

Camera(center, zoom, out) ==
    [Center |-> center, Zoom |-> zoom, VideoOutput |-> out]

Cam == Camera(Center, Zoom, surfRect)

(***************************************************************************)
(* The transforms (camera.go, lines 22 to 78).  Each faulty variant is     *)
(* defined before the definition it departs from: a property that holds of *)
(* the code fails for the variant named with it.                           *)
(***************************************************************************)

\* Project with the zoom components exchanged between the axes.
ProjectZoomSwapped(c, x, y) ==
    LET displayCenter == RectCenter(c.VideoOutput)
    IN  << FAdd(FMul(FSub(x, c.Center.X), c.Zoom.Y), displayCenter.X),
           FAdd(FMul(FSub(y, c.Center.Y), c.Zoom.X), displayCenter.Y) >>

\* Project with the display center of the surface as it was at construction.
ProjectFixedSurface(c, x, y) ==
    LET displayCenter == RectCenter(Rc(0, 0, 800, 600))
    IN  << FAdd(FMul(FSub(x, c.Center.X), c.Zoom.X), displayCenter.X),
           FAdd(FMul(FSub(y, c.Center.Y), c.Zoom.Y), displayCenter.Y) >>

Project(c, x, y) ==
    LET displayCenter == RectCenter(c.VideoOutput)
    IN  << FAdd(FMul(FSub(x, c.Center.X), c.Zoom.X), displayCenter.X),
           FAdd(FMul(FSub(y, c.Center.Y), c.Zoom.Y), displayCenter.Y) >>

\* Unproject adding Center before it divides by the zoom.
UnprojectCenterFirst(c, x, y) ==
    LET displayCenter == RectCenter(c.VideoOutput)
    IN  << FDiv(FAdd(FSub(x, displayCenter.X), c.Center.X), c.Zoom.X),
           FDiv(FAdd(FSub(y, displayCenter.Y), c.Center.Y), c.Zoom.Y) >>

Unproject(c, x, y) ==
    LET displayCenter == RectCenter(c.VideoOutput)
    IN  << FAdd(FDiv(FSub(x, displayCenter.X), c.Zoom.X), c.Center.X),
           FAdd(FDiv(FSub(y, displayCenter.Y), c.Zoom.Y), c.Center.Y) >>

ProjectVec(c, u) ==
    LET p == Project(c, u.X, u.Y) IN Vec(p[1], p[2])

UnprojectVec(c, u) ==
    LET p == Unproject(c, u.X, u.Y) IN Vec(p[1], p[2])

\* ProjectRect negating the size under a negative zoom without moving the origin.
ProjectRectOriginKept(c, r) ==
    LET rx == IF FLtZero(c.Zoom.X) THEN [r EXCEPT !.W = FMul(r.W, R(-1))] ELSE r
        r1 == IF FLtZero(c.Zoom.Y) THEN [rx EXCEPT !.H = FMul(rx.H, R(-1))] ELSE rx
        p  == Project(c, r1.X, r1.Y)
    IN  Rect(p[1], p[2], FMul(r1.W, c.Zoom.X), FMul(r1.H, c.Zoom.Y))

\* ProjectRect without the re-anchoring step.
ProjectRectNoAnchor(c, r) ==
    LET p == Project(c, r.X, r.Y)
    IN  Rect(p[1], p[2], FMul(r.W, c.Zoom.X), FMul(r.H, c.Zoom.Y))

\* ProjectRect leaving the size of the rectangle unscaled.
ProjectRectUnscaled(c, r) ==
    LET rx == IF FLtZero(c.Zoom.X)
              THEN [r EXCEPT !.X = FAdd(r.X, r.W), !.W = FMul(r.W, R(-1))]
              ELSE r
        r1 == IF FLtZero(c.Zoom.Y)
              THEN [rx EXCEPT !.Y = FAdd(rx.Y, rx.H), !.H = FMul(rx.H, R(-1))]
              ELSE rx
        p  == Project(c, r1.X, r1.Y)
    IN  Rect(p[1], p[2], r1.W, r1.H)

ProjectRect(c, r) ==
    LET rx == IF FLtZero(c.Zoom.X)
              THEN [r EXCEPT !.X = FAdd(r.X, r.W), !.W = FMul(r.W, R(-1))]
              ELSE r
        r1 == IF FLtZero(c.Zoom.Y)
              THEN [rx EXCEPT !.Y = FAdd(rx.Y, rx.H), !.H = FMul(rx.H, R(-1))]
              ELSE rx
        p  == Project(c, r1.X, r1.Y)
    IN  Rect(p[1], p[2], FMul(r1.W, c.Zoom.X), FMul(r1.H, c.Zoom.Y))

\* UnprojectRect without the re-anchoring step.
UnprojectRectNoAnchor(c, r) ==
    LET p == Unproject(c, r.X, r.Y)
    IN  Rect(p[1], p[2], FDiv(r.W, c.Zoom.X), FDiv(r.H, c.Zoom.Y))

UnprojectRect(c, r) ==
    LET rx == IF FLtZero(c.Zoom.X)
              THEN [r EXCEPT !.X = FAdd(r.X, r.W), !.W = FMul(r.W, R(-1))]
              ELSE r
        r1 == IF FLtZero(c.Zoom.Y)
              THEN [rx EXCEPT !.Y = FAdd(rx.Y, rx.H), !.H = FMul(rx.H, R(-1))]
              ELSE rx
        p  == Unproject(c, r1.X, r1.Y)
    IN  Rect(p[1], p[2], FDiv(r1.W, c.Zoom.X), FDiv(r1.H, c.Zoom.Y))

\* OutputRect projecting the surface's rectangle instead of unprojecting it.
OutputRectProjected(c) == ProjectRect(c, c.VideoOutput)

OutputRect(c) == UnprojectRect(c, c.VideoOutput)

(***************************************************************************)
(* What the draw methods hand to the VideoOutput (camera.go, lines 81 to   *)
(* 110): the primitive called and its arguments.                           *)
(***************************************************************************)
DrawPointCall(c, point, color) ==
    [name |-> "DrawPoint", point |-> ProjectVec(c, point), color |-> color]

DrawLineCall(c, a, b, thickness, color) ==
    [name |-> "DrawLine", a |-> ProjectVec(c, a), b |-> ProjectVec(c, b),
     thickness |-> thickness, color |-> color]

\* The loop of DrawPolygon stopping one vertex early.
ProjectPointsSkipLast(c, pts) ==
    [i \in 1..Len(pts) |->
        IF i = Len(pts) THEN pts[i] ELSE ProjectVec(c, pts[i])]

ProjectPoints(c, pts) == [i \in 1..Len(pts) |-> ProjectVec(c, pts[i])]

DrawPolygonCall(c, pts, thickness, color) ==
    [name |-> "DrawPolygon", points |-> ProjectPoints(c, pts),
     thickness |-> thickness, color |-> color]

DrawRectCall(c, rect, thickness, color) ==
    [name |-> "DrawRect", rect |-> ProjectRect(c, rect),
     thickness |-> thickness, color |-> color]

\* DrawPicture forwarding the rectangle it was given.
DrawPictureCallRaw(c, rect, pic) ==
    [name |-> "DrawPicture", rect |-> rect, pic |-> pic]

DrawPictureCall(c, rect, pic) ==
    [name |-> "DrawPicture", rect |-> ProjectRect(c, rect), pic |-> pic]

(***************************************************************************)
(* The values the caller uses.                                             *)
(***************************************************************************)
Centers == {V(x, y) : x \in {0, MaxCoord}, y \in {-MaxCoord, 0}}

Zooms ==
    { V(1, 1), V(2, 2), V(-1, 1), V(1, -1), V(-1, -1), V(-2, 3),
      Vec(<<1, 2>>, <<-3, 2>>), Vec(<<-1, 2>>, R(2)), V(0, 1), V(-1, 0) }

SurfRects == {Rc(0, 0, 800, 600), Rc(1, -1, 3, 5)}

GamePts ==
    {V(x, y) : x \in -MaxCoord..MaxCoord, y \in -MaxCoord..MaxCoord}
        \cup {V(10, 5)}

DispPts == {V(420, 310), V(400, 300), V(0, 0), V(3, -2)}

GameRects ==
    {Rc(o[1], o[2], w, h) : o \in {<<0, 0>>, <<1, -1>>},
                            w \in -MaxCoord..MaxCoord,
                            h \in -MaxCoord..MaxCoord}
        \cup {Rc(0, 0, 10, 10)}

DispRects == {Rc(0, 0, 800, 600), Rc(390, 300, 10, 10), Rc(2, 1, -4, 3)}

Thin == R(1)

Thick == <<5, 2>>

PolyVertex(i) == V(i - 1, 2 - i)

Polygon(n) == [i \in 1..n |-> PolyVertex(i)]

PointArgs == {<<V(1, -1), "red">>, <<V(10, 5), "blue">>}

LineArgs ==
    {<<V(0, 0), V(1, -1), Thin, "red">>, <<V(10, 5), V(-1, 1), Thick, "blue">>}

PolygonArgs ==
    {<<Polygon(n), IF n % 2 = 0 THEN Thin ELSE Thick,
       IF n % 2 = 0 THEN "red" ELSE "blue">> : n \in 0..MaxPoly}

RectArgs ==
    {<<Rc(0, 0, 10, 10), Thin, "red">>, <<Rc(1, -1, -2, 3), Thick, "blue">>}

PictureArgs == {<<Rc(0, 0, 10, 10), "pic1">>, <<Rc(1, -1, 2, -3), "pic2">>}

NoCall == [op |-> "none", in |-> <<>>, out |-> <<>>]

(***************************************************************************)
(* Construction: the caller builds the camera around a VideoOutput.        *)
(***************************************************************************)
Init ==
    /\ Center = V(0, 0)
    /\ Zoom = V(1, 1)
    /\ surfRect = Rc(0, 0, 800, 600)
    /\ last = NoCall
    /\ camCalls = <<>>
    /\ surfCalls = <<>>
    /\ points = <<>>

NewWindow ==
    /\ last' = NoCall
    /\ camCalls' = <<>>
    /\ surfCalls' = <<>>
    /\ points' = <<>>

(***************************************************************************)
(* The caller writes the exported fields; the surface is resized.          *)
(***************************************************************************)
SetCenter ==
    \E v \in Centers \ {Center} :
        /\ Center' = v
        /\ UNCHANGED <<Zoom, surfRect>>
        /\ NewWindow

SetZoom ==
    \E v \in Zooms \ {Zoom} :
        /\ Zoom' = v
        /\ UNCHANGED <<Center, surfRect>>
        /\ NewWindow

Resize ==
    \E r \in SurfRects \ {surfRect} :
        /\ surfRect' = r
        /\ UNCHANGED <<Center, Zoom>>
        /\ NewWindow

(***************************************************************************)
(* Query calls.                                                            *)
(***************************************************************************)
\* The two results of Project or Unproject, kept as one value.
AsVec(p) == Vec(p[1], p[2])

Returns(op, in, out) ==
    /\ last' = [op |-> op, in |-> in, out |-> out]
    /\ UNCHANGED <<Center, Zoom, surfRect, camCalls, surfCalls, points>>

CallProject ==
    \E p \in GamePts : Returns("Project", p, AsVec(Project(Cam, p.X, p.Y)))

CallUnproject ==
    \E p \in DispPts : Returns("Unproject", p, AsVec(Unproject(Cam, p.X, p.Y)))

CallProjectVec ==
    \E p \in GamePts : Returns("ProjectVec", p, ProjectVec(Cam, p))

CallUnprojectVec ==
    \E p \in DispPts : Returns("UnprojectVec", p, UnprojectVec(Cam, p))

CallProjectRect ==
    \E r \in GameRects : Returns("ProjectRect", r, ProjectRect(Cam, r))

CallUnprojectRect ==
    \E r \in DispRects : Returns("UnprojectRect", r, UnprojectRect(Cam, r))

CallOutputRect == Returns("OutputRect", <<>>, OutputRect(Cam))

(***************************************************************************)
(* Draw calls.                                                             *)
(***************************************************************************)
Forwards(call, sent) ==
    /\ Len(camCalls) < MaxCalls
    /\ camCalls' = Append(camCalls, call)
    /\ surfCalls' = Append(surfCalls, sent)
    /\ UNCHANGED <<Center, Zoom, surfRect, last>>

DrawPoint ==
    \E a \in PointArgs :
        /\ Forwards([name |-> "DrawPoint", point |-> a[1], color |-> a[2]],
                    DrawPointCall(Cam, a[1], a[2]))
        /\ UNCHANGED points

DrawLine ==
    \E a \in LineArgs :
        /\ Forwards([name |-> "DrawLine", a |-> a[1], b |-> a[2],
                     thickness |-> a[3], color |-> a[4]],
                    DrawLineCall(Cam, a[1], a[2], a[3], a[4]))
        /\ UNCHANGED points

DrawPolygon ==
    \E a \in PolygonArgs :
        /\ Forwards([name |-> "DrawPolygon", points |-> a[1],
                     thickness |-> a[2], color |-> a[3]],
                    DrawPolygonCall(Cam, a[1], a[2], a[3]))
        /\ points' = ProjectPoints(Cam, a[1])

DrawRect ==
    \E a \in RectArgs :
        /\ Forwards([name |-> "DrawRect", rect |-> a[1],
                     thickness |-> a[2], color |-> a[3]],
                    DrawRectCall(Cam, a[1], a[2], a[3]))
        /\ UNCHANGED points

DrawPicture ==
    \E a \in PictureArgs :
        /\ Forwards([name |-> "DrawPicture", rect |-> a[1], pic |-> a[2]],
                    DrawPictureCall(Cam, a[1], a[2]))
        /\ UNCHANGED points

(***************************************************************************)
(* Spec: the transforms under a moving camera.  SpecDraw: the draw calls   *)
(* under a moving camera.                                                  *)
(***************************************************************************)
Next ==
    \/ SetCenter
    \/ SetZoom
    \/ Resize
    \/ CallProject
    \/ CallUnproject
    \/ CallProjectVec
    \/ CallUnprojectVec
    \/ CallProjectRect
    \/ CallUnprojectRect
    \/ CallOutputRect

Spec == Init /\ [][Next]_vars

NextDraw ==
    \/ SetCenter
    \/ SetZoom
    \/ Resize
    \/ DrawPoint
    \/ DrawLine
    \/ DrawPolygon
    \/ DrawRect
    \/ DrawPicture

SpecDraw == Init /\ [][NextDraw]_vars

(***************************************************************************)
(* Vocabulary of the properties: comparisons of numbers, the region a      *)
(* rectangle covers, and the transforms written out as the documentation   *)
(* states them.                                                            *)
(***************************************************************************)
FAbs(a) == <<Abs(a[1]), a[2]>>

FSign(a) == IF a[1] < 0 THEN -1 ELSE IF a[1] > 0 THEN 1 ELSE 0

FLe(a, b) == a[1] * b[2] <= b[1] * a[2]

FMin(a, b) == IF FLe(a, b) THEN a ELSE b

ZoomNonZero == Zoom.X[1] # 0 /\ Zoom.Y[1] # 0

\* The region between two opposite corners: lower corner and extent.
CornerRegion(p, q) ==
    Rect(FMin(p[1], q[1]), FMin(p[2], q[2]),
         FAbs(FSub(q[1], p[1])), FAbs(FSub(q[2], p[2])))

\* The region a rectangle covers, whatever the signs of its width and height.
Region(r) ==
    CornerRegion(<<r.X, r.Y>>, <<FAdd(r.X, r.W), FAdd(r.Y, r.H)>>)

\* The reflection of a region through the point o.
Mirror(g, o) ==
    Rect(FSub(FSub(FMul(R(2), o.X), g.X), g.W),
         FSub(FSub(FMul(R(2), o.Y), g.Y), g.H), g.W, g.H)

InRegion(p, g) ==
    /\ FLe(g.X, p.X) /\ FLe(p.X, FAdd(g.X, g.W))
    /\ FLe(g.Y, p.Y) /\ FLe(p.Y, FAdd(g.Y, g.H))

RefProject(ctr, zm, out, p) ==
    LET oc == RectCenter(out)
    IN  Vec(FAdd(FMul(FSub(p.X, ctr.X), zm.X), oc.X),
            FAdd(FMul(FSub(p.Y, ctr.Y), zm.Y), oc.Y))

RefUnproject(ctr, zm, out, p) ==
    LET oc == RectCenter(out)
    IN  Vec(FAdd(FDiv(FSub(p.X, oc.X), zm.X), ctr.X),
            FAdd(FDiv(FSub(p.Y, oc.Y), zm.Y), ctr.Y))

\* The corner of r that the transform of a rectangle starts from.
AnchorCorner(zm, r) ==
    Vec(IF FLtZero(zm.X) THEN FAdd(r.X, r.W) ELSE r.X,
        IF FLtZero(zm.Y) THEN FAdd(r.Y, r.H) ELSE r.Y)

RefProjectRect(ctr, zm, out, r) ==
    LET o == RefProject(ctr, zm, out, AnchorCorner(zm, r))
    IN  Rect(o.X, o.Y, FMul(r.W, FAbs(zm.X)), FMul(r.H, FAbs(zm.Y)))

RefUnprojectRect(ctr, zm, out, r) ==
    LET o == RefUnproject(ctr, zm, out, AnchorCorner(zm, r))
    IN  Rect(o.X, o.Y, FDiv(r.W, FAbs(zm.X)), FDiv(r.H, FAbs(zm.Y)))

(***************************************************************************)
(* C1.  Round trip of points: with both zoom components non-zero, the      *)
(* point Project returns is taken back by Unproject to the point Project   *)
(* was given, on both axes.                                                *)
(***************************************************************************)
C1_RoundTrip ==
    (last.op = "Project" /\ ZoomNonZero)
        => Unproject(Cam, last.out.X, last.out.Y) = <<last.in.X, last.in.Y>>

C1_Witness ==
    /\ last.op = "Project"
    /\ Zoom = Vec(<<-1, 2>>, R(2))
    /\ Center = V(MaxCoord, -MaxCoord)
    /\ surfRect = Rc(1, -1, 3, 5)
    /\ last.in = V(-1, 1)
    /\ last.out # last.in

(***************************************************************************)
(* C2.  Project(x, y) is ((x - Center.X) * Zoom.X + oc.X,                  *)
(* (y - Center.Y) * Zoom.Y + oc.Y) with oc the center of the surface       *)
(* rectangle; each axis of the result depends on the same axis of the      *)
(* input alone; on the surface (0,0,800,600) with Center (0,0) and Zoom    *)
(* (2,2), Project(10,5) is (420,310) and Unproject(420,310) is (10,5).     *)
(***************************************************************************)
C2_Scenario ==
    Center = V(0, 0) /\ Zoom = V(2, 2) /\ surfRect = Rc(0, 0, 800, 600)

C2_ProjectFormula ==
    /\ last.op = "Project" =>
          /\ last.out = RefProject(Center, Zoom, surfRect, last.in)
          /\ \A q \in GamePts :
                /\ q.X = last.in.X => Project(Cam, q.X, q.Y)[1] = last.out.X
                /\ q.Y = last.in.Y => Project(Cam, q.X, q.Y)[2] = last.out.Y
    /\ (C2_Scenario /\ last.op = "Project" /\ last.in = V(10, 5))
          => last.out = V(420, 310)
    /\ (C2_Scenario /\ last.op = "Unproject" /\ last.in = V(420, 310))
          => last.out = V(10, 5)

C2_Witness ==
    /\ C2_Scenario
    /\ last = [op |-> "Project", in |-> V(10, 5), out |-> V(420, 310)]

(***************************************************************************)
(* C3.  As claimed: for the same Center, surface and base rectangle,        *)
(* ProjectRect under Zoom (-1,-1) and under Zoom (1,1) cover the identical *)
(* region of display space.                                                *)
(***************************************************************************)
C3_SameRegion ==
    (last.op = "ProjectRect" /\ Zoom = V(-1, -1))
        => Region(last.out)
             = Region(ProjectRect(Camera(Center, V(1, 1), surfRect), last.in))

(***************************************************************************)
(* C3, amended.  The two results cover regions of the same width and       *)
(* height that are reflections of each other through the display point     *)
(* Center is projected to (the display center); they are the same region   *)
(* exactly when the base rectangle is centred on Center.                   *)
(***************************************************************************)
C3_MirroredRegion ==
    (last.op = "ProjectRect" /\ Zoom = V(-1, -1))
        => LET flipped == Region(last.out)
               plain   == Region(ProjectRect(Camera(Center, V(1, 1), surfRect),
                                             last.in))
           IN  /\ flipped.W = plain.W
               /\ flipped.H = plain.H
               /\ flipped = Mirror(plain, ProjectVec(Cam, Center))
               /\ (flipped = plain) <=> (RectCenter(last.in) = Center)

C3_Witness ==
    /\ last.op = "ProjectRect"
    /\ Zoom = V(-1, -1)
    /\ last.in = Rc(1, -1, 1, -1)
    /\ Region(last.out)
         # Region(ProjectRect(Camera(Center, V(1, 1), surfRect), last.in))

(***************************************************************************)
(* C4.  ProjectRect keeps the orientation of the rectangle: with a non-zero *)
(* zoom the result's W is r.W * |Zoom.X| and has the sign of r.W, its H is *)
(* r.H * |Zoom.Y| and has the sign of r.H, and its origin is Project of    *)
(* the corner r.X + r.W when Zoom.X < 0 (r.X otherwise), likewise for Y.   *)
(* With Zoom (-1,1), ProjectRect of (0,0,10,10) projects (10,0) and has    *)
(* width 10.                                                               *)
(***************************************************************************)
C4_Orientation ==
    (last.op = "ProjectRect" /\ ZoomNonZero) =>
        LET r == last.in
            o == AnchorCorner(Zoom, r)
        IN  /\ last.out.W = FMul(r.W, FAbs(Zoom.X))
            /\ last.out.H = FMul(r.H, FAbs(Zoom.Y))
            /\ FSign(last.out.W) = FSign(r.W)
            /\ FSign(last.out.H) = FSign(r.H)
            /\ <<last.out.X, last.out.Y>> = Project(Cam, o.X, o.Y)
            /\ (Zoom = V(-1, 1) /\ r = Rc(0, 0, 10, 10)) =>
                  /\ <<last.out.X, last.out.Y>> = Project(Cam, R(10), R(0))
                  /\ last.out.W = R(10)

C4_Witness ==
    /\ last.op = "ProjectRect"
    /\ Zoom = V(-1, 1)
    /\ last.in = Rc(0, 0, 10, 10)
    /\ last.out.W = R(10)

(***************************************************************************)
(* C5.  Camera.OutputRect() is UnprojectRect of the surface's current      *)
(* rectangle: the visible part of game space.  With a non-zero zoom of     *)
(* either sign, ProjectRect takes it back to the surface's rectangle, its  *)
(* center is Center, and it covers the region between the two unprojected  *)
(* corners of the surface.                                                 *)
(***************************************************************************)
C5_OutputRect ==
    (last.op = "OutputRect" /\ ZoomNonZero) =>
        /\ last.out = UnprojectRect(Cam, surfRect)
        /\ ProjectRect(Cam, last.out) = surfRect
        /\ RectCenter(last.out) = Center
        /\ Region(last.out)
             = CornerRegion(Unproject(Cam, surfRect.X, surfRect.Y),
                            Unproject(Cam, FAdd(surfRect.X, surfRect.W),
                                           FAdd(surfRect.Y, surfRect.H)))

C5_Witness ==
    /\ last.op = "OutputRect"
    /\ Zoom = V(-2, 3)
    /\ Center = V(MaxCoord, -MaxCoord)
    /\ surfRect = Rc(1, -1, 3, 5)
    /\ last.out # surfRect

(***************************************************************************)
(* C6.  DrawPolygon given n vertices makes one DrawPolygon call on the     *)
(* surface with exactly n vertices, the i-th being ProjectVec of the i-th  *)
(* input vertex; the caller's slice is transformed in place and holds the  *)
(* projected vertices after the call.                                      *)
(***************************************************************************)
IsLastPolygon(i) ==
    /\ camCalls[i].name = "DrawPolygon"
    /\ \A j \in (i + 1)..Len(camCalls) : camCalls[j].name # "DrawPolygon"

C6_PolygonInPlace ==
    /\ Len(surfCalls) = Len(camCalls)
    /\ \A i \in 1..Len(camCalls) :
          camCalls[i].name = "DrawPolygon" =>
              LET given == camCalls[i].points
                  sent  == surfCalls[i]
              IN  /\ sent.name = "DrawPolygon"
                  /\ Len(sent.points) = Len(given)
                  /\ \A k \in 1..Len(given) :
                        sent.points[k] = ProjectVec(Cam, given[k])
                  /\ IsLastPolygon(i) => points = sent.points
    /\ (\A i \in 1..Len(camCalls) : camCalls[i].name # "DrawPolygon")
          => points = <<>>

C6_Witness ==
    /\ Len(camCalls) = MaxCalls
    /\ camCalls[1].name = "DrawPolygon"
    /\ camCalls[2].name = "DrawRect"
    /\ Len(camCalls[1].points) = 2
    /\ Zoom = V(-2, 3)
    /\ Len(points) = 2
    /\ points = surfCalls[1].points
    /\ points[1] # camCalls[1].points[1]
    /\ points[2] # camCalls[1].points[2]

(***************************************************************************)
(* C7.  Draw delegation is one-to-one: the surface has received one call   *)
(* per camera draw call, of the primitive of the same name and in the same *)
(* order, with points passed as ProjectVec of the input, rectangles as     *)
(* ProjectRect of the input, and thickness, color and picture unchanged.   *)
(***************************************************************************)
Delegated(call) ==
    CASE call.name = "DrawPoint" ->
           [name |-> "DrawPoint", point |-> ProjectVec(Cam, call.point),
            color |-> call.color]
      [] call.name = "DrawLine" ->
           [name |-> "DrawLine", a |-> ProjectVec(Cam, call.a),
            b |-> ProjectVec(Cam, call.b), thickness |-> call.thickness,
            color |-> call.color]
      [] call.name = "DrawPolygon" ->
           [name |-> "DrawPolygon",
            points |-> [k \in 1..Len(call.points) |->
                           ProjectVec(Cam, call.points[k])],
            thickness |-> call.thickness, color |-> call.color]
      [] call.name = "DrawRect" ->
           [name |-> "DrawRect", rect |-> ProjectRect(Cam, call.rect),
            thickness |-> call.thickness, color |-> call.color]
      [] call.name = "DrawPicture" ->
           [name |-> "DrawPicture", rect |-> ProjectRect(Cam, call.rect),
            pic |-> call.pic]

C7_OneToOne ==
    /\ Len(surfCalls) = Len(camCalls)
    /\ \A i \in 1..Len(camCalls) : surfCalls[i] = Delegated(camCalls[i])

C7_Witness ==
    /\ Len(camCalls) = 2
    /\ camCalls[1].name = "DrawLine"
    /\ camCalls[2].name = "DrawPicture"
    /\ Zoom = V(-1, -1)
    /\ surfCalls[1].name = "DrawLine"
    /\ surfCalls[1].thickness = Thick
    /\ surfCalls[2].name = "DrawPicture"
    /\ surfCalls[2].pic = "pic2"
    /\ surfCalls[2].rect # camCalls[2].rect

(***************************************************************************)
(* C8.  The camera caches nothing: every call returns what the surface     *)
(* rectangle, Center and Zoom of the moment of the call give, whatever     *)
(* resizes and field changes came before it, and no call changes Center,   *)
(* Zoom or the surface rectangle.                                          *)
(***************************************************************************)
FromCurrent(call, ctr, zm, out) ==
    CASE call.op = "Project" ->
           call.out = RefProject(ctr, zm, out, call.in)
      [] call.op = "ProjectVec" ->
           call.out = RefProject(ctr, zm, out, call.in)
      [] call.op = "Unproject" ->
           call.out = RefUnproject(ctr, zm, out, call.in)
      [] call.op = "UnprojectVec" ->
           call.out = RefUnproject(ctr, zm, out, call.in)
      [] call.op = "ProjectRect" ->
           call.out = RefProjectRect(ctr, zm, out, call.in)
      [] call.op = "UnprojectRect" ->
           call.out = RefUnprojectRect(ctr, zm, out, call.in)
      [] call.op = "OutputRect" ->
           call.out = RefUnprojectRect(ctr, zm, out, out)

C8_NoCache ==
    [][ last'.op # "none" =>
            /\ UNCHANGED <<Center, Zoom, surfRect>>
            /\ FromCurrent(last', Center', Zoom', surfRect') ]_vars

C8_Witness ==
    /\ last.op = "ProjectRect"
    /\ Center # V(0, 0)
    /\ Zoom = V(-2, 3)
    /\ surfRect = Rc(1, -1, 3, 5)
    /\ last.out = RefProjectRect(Center, Zoom, surfRect, last.in)
    /\ last.out # RefProjectRect(V(0, 0), V(1, 1), Rc(0, 0, 800, 600), last.in)

(***************************************************************************)
(* C9.  Footprint of ProjectRect: with a non-zero zoom of either sign and  *)
(* a rectangle r of non-negative width and height, ProjectRect(r) covers   *)
(* exactly the region whose opposite corners are Project(r.X, r.Y) and     *)
(* Project(r.X + r.W, r.Y + r.H), so the points inside r are projected     *)
(* inside it.                                                              *)
(***************************************************************************)
C9_Footprint ==
    (/\ last.op = "ProjectRect"
     /\ ZoomNonZero
     /\ last.in.W[1] >= 0
     /\ last.in.H[1] >= 0) =>
        LET r == last.in
        IN  /\ Region(last.out)
                 = CornerRegion(Project(Cam, r.X, r.Y),
                                Project(Cam, FAdd(r.X, r.W), FAdd(r.Y, r.H)))
            /\ \A q \in GamePts :
                  InRegion(q, Region(r))
                      => InRegion(ProjectVec(Cam, q), Region(last.out))

C9_Witness ==
    /\ last.op = "ProjectRect"
    /\ Zoom = Vec(<<-1, 2>>, R(2))
    /\ last.in = Rc(0, 0, 1, 1)
    /\ last.out.X # Project(Cam, R(0), R(0))[1]
    /\ InRegion(ProjectVec(Cam, V(1, 1)), Region(last.out))

(***************************************************************************)
(* C10.  Round trip of rectangles: with both zoom components non-zero, of  *)
(* either sign, and a rectangle of any signs of width and height,          *)
(* UnprojectRect takes the result of ProjectRect back to the rectangle in  *)
(* all four fields.                                                        *)
(***************************************************************************)
C10_RectRoundTrip ==
    (last.op = "ProjectRect" /\ ZoomNonZero)
        => UnprojectRect(Cam, last.out) = last.in

C10_Witness ==
    /\ last.op = "ProjectRect"
    /\ Zoom = V(-2, 3)
    /\ Center = V(MaxCoord, -MaxCoord)
    /\ last.in = Rc(1, -1, -1, 1)
    /\ last.out # last.in
    /\ UnprojectRect(Cam, last.out) = last.in

====
